---- MODULE Spec2Model ----
(***************************************************************************)
(* Zone-based intrusion decision engine of arystan09/security_check:       *)
(* the zone registry (src/src/zone_manager.py), the geometry helpers       *)
(* (src/src/geometry_utils.py) and the alarm state machine driven by       *)
(* IntrusionDetector.process_frame (src/src/intrusion_detector.py), and    *)
(* the interactive zone capture session (src/src/zone_marker.py).          *)
(*                                                                         *)
(* Time values are whole time units (the code takes floats); the           *)
(* hysteresis constant deactivate_delay = 3.0 is 3 units.  Coordinates     *)
(* handed to add_zone are given in half units so that the int() coercion   *)
(* has something to truncate.                                              *)
(***************************************************************************)
EXTENDS Integers, Sequences, FiniteSets, TLC

VARIABLES
    file,         \* the document at json_path: exists/readable/writable/doc
    zones,        \* ZoneManager.zones of the registry object under the API
    reg,          \* "none" before ZoneManager(...) returned, then "ready"
    err,          \* exception the last operation let escape, or "none"
    last,         \* name of the last operation performed
    arg,          \* arguments of the last add_zone call
    ret,          \* value returned by the last save_zones call
    prevZones,    \* history: zones before the last registry operation
    saved,        \* history: registry written by the last successful save
    io,           \* history: what the file system did on the last save_zones
    det,          \* "none" before IntrusionDetector(...) returned, then "ready"
    det_zones,    \* IntrusionDetector.zones
    alarm_state,  \* IntrusionDetector.alarm_state: active, deactivate_time
    prevAlarm,    \* history: alarm_state before the last detector operation
    frame,        \* history: inputs and per-frame results of the last frame
    quietStart,   \* history: time of the first no-intrusion frame since the
                  \* most recent intrusion frame
    cancelled,    \* history: an intrusion frame of this run cleared a pending
                  \* deactivation timestamp
    marker,       \* the ZoneMarker object: phase, zone_manager.zones,
                  \* current_points, current_zone_id, drawing, frame_number
    cap,          \* the video behind cv2.VideoCapture(video_path)
    prevMarker,   \* history: marker before the last mouse event or key
    fileAtStart,  \* history: the zone file when ZoneMarker(...) was called
    startZones    \* history: the zones ZoneMarker(...) loaded

vars == <<file, zones, reg, err, last, arg, ret, prevZones, saved, io,
          det, det_zones, alarm_state, prevAlarm, frame, quietStart,
          cancelled, marker, cap, prevMarker, fileAtStart, startZones>>

regVars == <<zones, reg, arg, ret, prevZones, saved, io>>
detVars == <<det, det_zones, alarm_state, prevAlarm, frame, quietStart,
          cancelled>>
markerVars == <<marker, cap, prevMarker, fileAtStart, startZones>>

----------------------------------------------------------------------------
(* Bounds of the model *)

MaxPast == 3
MaxTime == 2
MaxDets == 2
MaxZones == 3
MaxPoints == 3
MaxCommits == 2
MaxFrames == 2

Times == (0 - MaxPast) .. MaxTime

----------------------------------------------------------------------------
(* Python's None / Optional values and truthiness *)

None == [some |-> FALSE]
Some(x) == [some |-> TRUE, v |-> x]

\* `if self.deactivate_time` / `not self.deactivate_time`: None and 0.0 are
\* both falsy.
Truthy(x) == x.some /\ x.v # 0

----------------------------------------------------------------------------
(* JSON documents: the text of the zone file, as a tree *)

JNull == [k |-> "null"]
JNum(n) == [k |-> "number", v |-> n]
JArr(s) == [k |-> "array", items |-> s]
JObj(f) == [k |-> "object", fields |-> f]
\* text that is not JSON, and bytes that are not UTF-8
InvalidText == [k |-> "invalid"]
BinaryData == [k |-> "binary"]

\* json.load's decoding of a parsed document into Python values
RECURSIVE json_load(_)
json_load(j) ==
    CASE j.k = "number" -> j.v
      [] j.k = "array"  -> [i \in DOMAIN j.items |-> json_load(j.items[i])]
      [] j.k = "object" -> [f \in DOMAIN j.fields |-> json_load(j.fields[f])]
      [] OTHER          -> None

\* faulty variant: a zone written with the coordinates of each point swapped
dump_zone_swapped(z) ==
    JObj([id |-> JNum(z.id),
          points |-> JArr([i \in DOMAIN z.points |->
                              JArr(<<JNum(z.points[i][2]), JNum(z.points[i][1])>>)])])

\* json.dump of one zone dict {'id': int, 'points': [[int, int], ...]}
dump_zone(z) ==
    JObj([id |-> JNum(z.id),
          points |-> JArr([i \in DOMAIN z.points |->
                              JArr(<<JNum(z.points[i][1]), JNum(z.points[i][2])>>)])])

\* json.dump of data = {'zones': self.zones}
json_dump(zs) ==
    JObj([zones |-> JArr([i \in DOMAIN zs |-> dump_zone(zs[i])])])

----------------------------------------------------------------------------
(* AlarmState *)

deactivate_delay == 3

AlarmInit == [active |-> FALSE, deactivate_time |-> None]

\* faulty variant: activate that sets the flag and leaves the timestamp pending
activate_keeps_timestamp(a) == [a EXCEPT !.active = TRUE]

activate(a) == [active |-> TRUE, deactivate_time |-> None]

\* faulty variant: check_deactivate that schedules without testing self.active
check_deactivate_ignores_active(a, current_time) ==
    LET a1 == IF ~Truthy(a.deactivate_time)
              THEN [a EXCEPT !.deactivate_time = Some(current_time + 3)]
              ELSE a
    IN  IF Truthy(a1.deactivate_time) /\ current_time >= a1.deactivate_time.v
        THEN [active |-> FALSE, deactivate_time |-> None]
        ELSE a1

\* faulty variant: check_deactivate that schedules at current_time, without the delay
check_deactivate_no_delay(a, current_time) ==
    LET a1 == IF a.active /\ ~Truthy(a.deactivate_time)
              THEN [a EXCEPT !.deactivate_time = Some(current_time)]
              ELSE a
    IN  IF Truthy(a1.deactivate_time) /\ current_time >= a1.deactivate_time.v
        THEN [active |-> FALSE, deactivate_time |-> None]
        ELSE a1

check_deactivate(a, current_time) ==
    LET a1 == IF a.active /\ ~Truthy(a.deactivate_time)
              THEN [a EXCEPT !.deactivate_time = Some(current_time + deactivate_delay)]
              ELSE a
    IN  IF Truthy(a1.deactivate_time) /\ current_time >= a1.deactivate_time.v
        THEN [active |-> FALSE, deactivate_time |-> None]
        ELSE a1

\* faulty variant: reset that clears the flag and leaves the timestamp
reset_keeps_timestamp(a) == [a EXCEPT !.active = FALSE]

\* faulty variant: reset that does nothing while a deactivation is pending
reset_unless_pending(a) ==
    IF a.deactivate_time.some
    THEN a
    ELSE [active |-> FALSE, deactivate_time |-> None]

reset(a) == [active |-> FALSE, deactivate_time |-> None]

----------------------------------------------------------------------------
(* geometry_utils *)

\* int(s / 2) for an integer s: Python's int() truncates toward zero
py_int_half(s) == IF s >= 0 THEN s \div 2 ELSE 0 - ((0 - s) \div 2)

\* cv2.pointPolygonTest(contour, pt, measureDist=False) for an int32 contour
\* and an integer point: OpenCV's integer branch, edge by edge, starting with
\* the closing edge from the last vertex to the first.  Returns 1 (inside),
\* 0 (on an edge or a vertex) or -1 (outside).
RECURSIVE ppt_scan(_, _, _, _)
ppt_scan(cnt, ip, i, counter) ==
    IF i > Len(cnt)
    THEN (IF counter % 2 = 0 THEN -1 ELSE 1)
    ELSE LET v0 == IF i = 1 THEN cnt[Len(cnt)] ELSE cnt[i - 1]
             v  == cnt[i]
             skip == \/ (v0[2] <= ip[2] /\ v[2] <= ip[2])
                     \/ (v0[2] > ip[2] /\ v[2] > ip[2])
                     \/ (v0[1] < ip[1] /\ v[1] < ip[1])
             onEdge == /\ ip[2] = v[2]
                       /\ \/ ip[1] = v[1]
                          \/ /\ ip[2] = v0[2]
                             /\ \/ (v0[1] <= ip[1] /\ ip[1] <= v[1])
                                \/ (v[1] <= ip[1] /\ ip[1] <= v0[1])
             dist == (ip[2] - v0[2]) * (v[1] - v0[1])
                     - (ip[1] - v0[1]) * (v[2] - v0[2])
             sdist == IF v[2] < v0[2] THEN 0 - dist ELSE dist
         IN  IF skip
             THEN (IF onEdge THEN 0 ELSE ppt_scan(cnt, ip, i + 1, counter))
             ELSE IF dist = 0
                  THEN 0
                  ELSE ppt_scan(cnt, ip, i + 1,
                                counter + (IF sdist > 0 THEN 1 ELSE 0))

pointPolygonTest(cnt, pt) ==
    IF Len(cnt) = 0 THEN -1 ELSE ppt_scan(cnt, pt, 1, 0)

point_in_polygon(point, polygon) == pointPolygonTest(polygon, point) >= 0

bbox_center(bbox) ==
    <<py_int_half(bbox[1] + bbox[3]), py_int_half(bbox[2] + bbox[4])>>

\* the zones (by position) that check_person_in_zones hands to
\* point_in_polygon: every zone of the list, whatever its number of points
zones_tested(zs) == {i \in DOMAIN zs : TRUE}

RECURSIVE collect_ids(_, _, _)
collect_ids(center, zs, i) ==
    IF i > Len(zs)
    THEN <<>>
    ELSE IF i \in zones_tested(zs) /\ point_in_polygon(center, zs[i].points)
         THEN <<zs[i].id>> \o collect_ids(center, zs, i + 1)
         ELSE collect_ids(center, zs, i + 1)

\* faulty variant: the lookup stops at the first zone that contains the point
check_person_in_zones_first(center, zs) ==
    LET all == collect_ids(center, zs, 1)
    IN  IF all = <<>> THEN <<>> ELSE <<all[1]>>

check_person_in_zones(center, zs) == collect_ids(center, zs, 1)

----------------------------------------------------------------------------
(* ZoneManager *)

\* int(x) of a coordinate given in half units
py_int(h) == py_int_half(h)

\* load_zones: the zones and the exception that escapes, if any.  cur is
\* self.zones before the call.
load_zones(f, cur) ==
    IF ~f.exists
    THEN [zones |-> cur, err |-> "none"]
    ELSE IF ~f.readable
    THEN [zones |-> <<>>, err |-> "none"]
    ELSE IF f.doc.k = "binary"
    THEN [zones |-> cur, err |-> "UnicodeDecodeError"]
    ELSE IF f.doc.k = "invalid"
    THEN [zones |-> <<>>, err |-> "none"]
    ELSE IF f.doc.k # "object"
    THEN [zones |-> cur, err |-> "AttributeError"]
    ELSE IF "zones" \in DOMAIN f.doc.fields
    THEN [zones |-> json_load(f.doc.fields.zones), err |-> "none"]
    ELSE [zones |-> <<>>, err |-> "none"]

\* faulty variant: add_zone whose default id is the current count, without the + 1
add_zone_id_len(zs, points, zone_id) ==
    LET id == IF ~zone_id.some THEN Len(zs) ELSE zone_id.v
    IN  Append(zs, [id |-> id,
                    points |-> [i \in DOMAIN points |->
                                   <<py_int(points[i][1]), py_int(points[i][2])>>]])

add_zone(zs, points, zone_id) ==
    LET id == IF ~zone_id.some THEN Len(zs) + 1 ELSE zone_id.v
    IN  Append(zs, [id |-> id,
                    points |-> [i \in DOMAIN points |->
                                   <<py_int(points[i][1]), py_int(points[i][2])>>]])

\* what open(json_path, 'w') and the write meet: the file cannot be opened
\* for writing, or the device fails during the write, or the write goes through
io_outcome(f, disk_ok) ==
    IF ~f.writable THEN "denied" ELSE IF ~disk_ok THEN "diskfull" ELSE "ok"

\* faulty variant: save_zones that reports success whatever happened
save_zones_reports_true(zs, f, disk_ok) ==
    IF f.writable /\ disk_ok
    THEN [file |-> [exists |-> TRUE,
                    readable |-> IF f.exists THEN f.readable ELSE TRUE,
                    writable |-> TRUE,
                    doc |-> json_dump(zs)],
          ret |-> TRUE, err |-> "none"]
    ELSE [file |-> f, ret |-> TRUE, err |-> "none"]

\* save_zones: the file afterwards, the value returned and the exception
\* that escapes.  open(..., 'w') truncates the file before anything is
\* written; an IOError from open or from the write is caught.
save_zones(zs, f, disk_ok) ==
    IF ~f.writable
    THEN [file |-> f, ret |-> FALSE, err |-> "none"]
    ELSE IF ~disk_ok
    THEN [file |-> [exists |-> TRUE,
                    readable |-> IF f.exists THEN f.readable ELSE TRUE,
                    writable |-> TRUE,
                    doc |-> InvalidText],
          ret |-> FALSE, err |-> "none"]
    ELSE [file |-> [exists |-> TRUE,
                    readable |-> IF f.exists THEN f.readable ELSE TRUE,
                    writable |-> TRUE,
                    doc |-> json_dump(zs)],
          ret |-> TRUE, err |-> "none"]

clear_zones(zs) == <<>>

----------------------------------------------------------------------------
(* ZoneMarker *)

\* (x, y) of a mouse event are whole pixels; add_zone takes half units
pixels(points) ==
    [i \in DOMAIN points |-> <<2 * points[i][1], 2 * points[i][2]>>]

\* ZoneMarker(video_path, json_path): the exception that escapes the
\* ZoneManager constructor, or the fields of the new object
marker_init(f) ==
    LET r == load_zones(f, <<>>)
    IN  [err |-> r.err,
         marker |-> [phase |-> "made",
                     zones |-> r.zones,
                     current_points |-> <<>>,
                     current_zone_id |-> Len(r.zones) + 1,
                     drawing |-> FALSE,
                     frame_number |-> 0]]

NoMarker ==
    [phase |-> "none", zones |-> <<>>, current_points |-> <<>>,
     current_zone_id |-> 0, drawing |-> FALSE, frame_number |-> 0]

\* run() up to the key loop: the capture must open and give a first frame
run_start(m, video) ==
    IF video.opened /\ video.frames > 0
    THEN [m EXCEPT !.phase = "running", !.frame_number = 0]
    ELSE [m EXCEPT !.phase = "done"]

mouse_callback(m, event, x, y) ==
    IF event = "LBUTTONDOWN"
    THEN [m EXCEPT !.current_points = Append(@, <<x, y>>), !.drawing = TRUE]
    ELSE IF event = "LBUTTONUP"
    THEN [m EXCEPT !.drawing = FALSE]
    ELSE m

\* faulty variant: two points are enough to finish a zone
finish_zone_two_points(m) ==
    IF m.current_points # <<>> /\ Len(m.current_points) >= 2
    THEN [m EXCEPT !.zones = add_zone(@, pixels(m.current_points),
                                      Some(m.current_zone_id)),
                   !.current_points = <<>>,
                   !.current_zone_id = @ + 1]
    ELSE m

\* the block ENTER, SPACE and S share: a polygon of at least 3 points goes
\* to the registry under current_zone_id
finish_zone(m) ==
    IF m.current_points # <<>> /\ Len(m.current_points) >= 3
    THEN [m EXCEPT !.zones = add_zone(@, pixels(m.current_points),
                                      Some(m.current_zone_id)),
                   !.current_points = <<>>,
                   !.current_zone_id = @ + 1]
    ELSE m

\* faulty variant: every key that ends the session saves
exit_key_always_saves(key, m, f, disk_ok) ==
    LET c == finish_zone(m)
        s == save_zones(c.zones, f, disk_ok)
    IN  [marker |-> [c EXCEPT !.phase = "done"],
         file |-> s.file, ret |-> Some(s.ret),
         io |-> io_outcome(f, disk_ok)]

\* the keys that leave the loop: q and ESC break, s finishes the polygon in
\* progress, saves and breaks
exit_key(key, m, f, disk_ok) ==
    IF key \in {"q", "ESC"}
    THEN [marker |-> [m EXCEPT !.phase = "done"],
          file |-> f, ret |-> None, io |-> "none"]
    ELSE LET c == finish_zone(m)
             s == save_zones(c.zones, f, disk_ok)
         IN  [marker |-> [c EXCEPT !.phase = "done"],
              file |-> s.file, ret |-> Some(s.ret),
              io |-> io_outcome(f, disk_ok)]

\* SPACE: finish the polygon in progress, then cap.read() the next frame
key_space(m, video) ==
    LET c == finish_zone(m)
    IN  IF c.frame_number + 1 < video.frames
        THEN [c EXCEPT !.frame_number = @ + 1]
        ELSE c

\* b: back to the previous frame, if any
key_b(m) ==
    IF m.frame_number > 0 THEN [m EXCEPT !.frame_number = @ - 1] ELSE m

\* c: drop the polygon in progress
key_c(m) == [m EXCEPT !.current_points = <<>>]

\* ENTER: finish the polygon in progress or complain
key_enter(m) == finish_zone(m)

----------------------------------------------------------------------------
(* IntrusionDetector.process_frame *)

\* faulty variant: has_intrusion overwritten by every box instead of latched
frame_result_last_box(dets, zs) ==
    LET hits == [i \in DOMAIN dets |->
                    check_person_in_zones(bbox_center(dets[i]), zs)]
    IN  [hits |-> hits,
         has_intrusion |-> dets # <<>> /\ hits[Len(dets)] # <<>>,
         tested |-> IF dets = <<>> THEN {} ELSE zones_tested(zs)]

\* the per-detection zone lists and the has_intrusion flag of one frame
frame_result(dets, zs) ==
    LET hits == [i \in DOMAIN dets |->
                    check_person_in_zones(bbox_center(dets[i]), zs)]
    IN  [hits |-> hits,
         has_intrusion |-> \E i \in DOMAIN dets : hits[i] # <<>>,
         tested |-> IF dets = <<>> THEN {} ELSE zones_tested(zs)]

process_frame(a, dets, zs, current_time) ==
    LET r == frame_result(dets, zs)
    IN  [alarm |-> IF r.has_intrusion
                   THEN activate(a)
                   ELSE check_deactivate(a, current_time),
         result |-> r]

----------------------------------------------------------------------------
(* Inputs: zone files found at json_path, add_zone arguments, detections *)

\* one entry of the "zones" array: { "id": <int>, "points": [[x, y], ...] }
ZoneDoc(id, pts) ==
    JObj([id |-> JNum(id),
          points |-> JArr([i \in DOMAIN pts |->
                              JArr(<<JNum(pts[i][1]), JNum(pts[i][2])>>)])])

ZonesDoc(entries) == JObj([zones |-> JArr(entries)])

SquareA == <<<<0, 0>>, <<4, 0>>, <<4, 4>>, <<0, 4>>>>
SegmentB == <<<<0, 6>>, <<4, 6>>>>
TriangleC == <<<<1, 1>>, <<7, 1>>, <<1, 7>>>>

Docs ==
    { InvalidText, BinaryData, JNull, JArr(<<>>), JObj(<<>>),
      ZonesDoc(<<>>),
      ZonesDoc(<<ZoneDoc(1, SquareA)>>),
      ZonesDoc(<<ZoneDoc(1, SquareA), ZoneDoc(2, SegmentB)>>),
      ZonesDoc(<<ZoneDoc(3, TriangleC), ZoneDoc(1, SquareA)>>) }

\* the file system's view of json_path; a missing file is "writable" when
\* it can be created
InitFiles ==
    {[exists |-> FALSE, readable |-> FALSE, writable |-> w, doc |-> JNull] :
        w \in BOOLEAN}
    \cup {[exists |-> TRUE, readable |-> TRUE, writable |-> TRUE, doc |-> d] :
        d \in Docs}
    \cup {[exists |-> TRUE, readable |-> r, writable |-> ~r,
           doc |-> ZonesDoc(<<ZoneDoc(1, SquareA)>>)] : r \in BOOLEAN}

\* add_zone arguments: points in half units, zone_id or None
RawTriangle == <<<<3, 2>>, <<15, 3>>, <<2, 14>>>>
RawSegment == <<<<-1, 13>>, <<9, 12>>>>
AddPoints == {RawTriangle, RawSegment}
AddIds == {None, Some(2)}

\* bounding boxes (x1, y1, x2, y2) the detector reports
Boxes == {<<1, 1, 4, 4>>, <<1, 5, 3, 7>>}
Detections == UNION {[1 .. n -> Boxes] : n \in 0 .. MaxDets}

NoFrame ==
    [seen |-> FALSE, now |-> 0, dets |-> <<>>, has_intrusion |-> FALSE,
     hits |-> <<>>, tested |-> {}]

\* videos at video_path: one that cannot be opened, and ones of 0 .. MaxFrames
\* frames
Videos ==
    {[opened |-> FALSE, frames |-> 0]}
    \cup {[opened |-> TRUE, frames |-> n] : n \in 0 .. MaxFrames}

\* where the click that adds point number n + 1 of a polygon lands
Clicks(n) ==
    IF n = 0 THEN {<<1, 1>>, <<2, 1>>} ELSE {<<1 + (3 * n), 1 + ((n * n) % 5)>>}

----------------------------------------------------------------------------
(* The state machine *)

Init ==
    /\ file \in InitFiles
    /\ zones = <<>>
    /\ reg = "none"
    /\ err = "none"
    /\ last = "init"
    /\ arg = [points |-> <<>>, zone_id |-> None]
    /\ ret = FALSE
    /\ prevZones = <<>>
    /\ saved = None
    /\ io = "none"
    /\ det = "none"
    /\ det_zones = <<>>
    /\ alarm_state = AlarmInit
    /\ prevAlarm = AlarmInit
    /\ frame = NoFrame
    /\ quietStart = None
    /\ cancelled = FALSE
    /\ marker = NoMarker
    /\ cap = [opened |-> FALSE, frames |-> 0]
    /\ prevMarker = NoMarker
    /\ fileAtStart = file
    /\ startZones = <<>>

\* ZoneManager(json_path): self.zones = [] then load_zones(); an exception
\* that escapes load_zones leaves no object
Construct ==
    LET r == load_zones(file, <<>>)
    IN  /\ prevZones' = zones
        /\ zones' = IF r.err = "none" THEN r.zones ELSE <<>>
        /\ reg' = IF r.err = "none" THEN "ready" ELSE "none"
        /\ err' = r.err
        /\ last' = "construct"
        /\ UNCHANGED <<file, arg, ret, saved, io>>
        /\ UNCHANGED detVars
        /\ UNCHANGED markerVars

\* load_zones() called again on the registry
Reload ==
    /\ reg = "ready"
    /\ LET r == load_zones(file, zones)
       IN  /\ prevZones' = zones
           /\ zones' = r.zones
           /\ err' = r.err
    /\ last' = "load"
    /\ UNCHANGED <<file, reg, arg, ret, saved, io>>
    /\ UNCHANGED detVars
    /\ UNCHANGED markerVars

AddZone ==
    /\ reg = "ready"
    /\ Len(zones) < MaxZones
    /\ \E points \in AddPoints, zone_id \in AddIds :
          /\ zones' = add_zone(zones, points, zone_id)
          /\ arg' = [points |-> points, zone_id |-> zone_id]
    /\ prevZones' = zones
    /\ err' = "none"
    /\ last' = "add"
    /\ UNCHANGED <<file, reg, ret, saved, io>>
    /\ UNCHANGED detVars
    /\ UNCHANGED markerVars

SaveZones ==
    /\ reg = "ready"
    /\ \E disk_ok \in BOOLEAN :
          \E r \in {save_zones(zones, file, disk_ok)} :
             /\ file' = r.file
             /\ ret' = r.ret
             /\ err' = r.err
             /\ io' = io_outcome(file, disk_ok)
             /\ saved' = IF r.ret THEN Some(zones)
                         ELSE IF r.file # file THEN None
                         ELSE saved
    /\ prevZones' = zones
    /\ last' = "save"
    /\ UNCHANGED <<zones, reg, arg>>
    /\ UNCHANGED detVars
    /\ UNCHANGED markerVars

ClearZones ==
    /\ reg = "ready"
    /\ zones' = clear_zones(zones)
    /\ prevZones' = zones
    /\ err' = "none"
    /\ last' = "clear"
    /\ UNCHANGED <<file, reg, arg, ret, saved, io>>
    /\ UNCHANGED detVars
    /\ UNCHANGED markerVars

\* IntrusionDetector(video_path, zones_json): its own ZoneManager, the zone
\* list it holds, a fresh AlarmState
DetectorInit ==
    /\ det = "none"
    /\ LET r == load_zones(file, <<>>)
       IN  /\ err' = r.err
           /\ det' = IF r.err = "none" THEN "ready" ELSE "none"
           /\ det_zones' = IF r.err = "none" THEN r.zones ELSE <<>>
    /\ alarm_state' = AlarmInit
    /\ prevAlarm' = alarm_state
    /\ last' = "detector"
    /\ UNCHANGED <<file, frame, quietStart, cancelled>>
    /\ UNCHANGED regVars
    /\ UNCHANGED markerVars

\* process_frame(frame, current_time) on the detections the model returns;
\* current_time is the caller's clock, non-decreasing within one run
ProcessFrame ==
    /\ det = "ready"
    /\ \E dets \in Detections, now \in Times :
          /\ frame.seen => now >= frame.now
          /\ \E p \in {process_frame(alarm_state, dets, det_zones, now)} :
                /\ alarm_state' = p.alarm
                /\ frame' = [seen |-> TRUE, now |-> now, dets |-> dets,
                             has_intrusion |-> p.result.has_intrusion,
                             hits |-> p.result.hits,
                             tested |-> p.result.tested]
                /\ quietStart' = IF p.result.has_intrusion THEN None
                                 ELSE IF ~quietStart.some THEN Some(now)
                                 ELSE quietStart
                /\ cancelled' = (cancelled \/ (p.result.has_intrusion
                                               /\ alarm_state.deactivate_time.some))
    /\ prevAlarm' = alarm_state
    /\ err' = "none"
    /\ last' = "frame"
    /\ UNCHANGED <<file, det, det_zones>>
    /\ UNCHANGED regVars
    /\ UNCHANGED markerVars

\* alarm_state.reset()
AlarmReset ==
    /\ det = "ready"
    /\ alarm_state' = reset(alarm_state)
    /\ prevAlarm' = alarm_state
    /\ err' = "none"
    /\ last' = "reset"
    /\ UNCHANGED <<file, det, det_zones, frame, quietStart, cancelled>>
    /\ UNCHANGED regVars
    /\ UNCHANGED markerVars

\* a detection run
Next == DetectorInit \/ ProcessFrame \/ AlarmReset

Spec == Init /\ [][Next]_vars

\* the zone registry driven through its operations
NextRegistry == Construct \/ Reload \/ AddZone \/ SaveZones \/ ClearZones

SpecRegistry == Init /\ [][NextRegistry]_vars

\* ZoneMarker(video_path, json_path)
MarkerInit ==
    /\ marker.phase = "none"
    /\ \E r \in {marker_init(file)} :
          /\ err' = r.err
          /\ marker' = IF r.err = "none" THEN r.marker ELSE marker
          /\ startZones' = IF r.err = "none" THEN r.marker.zones ELSE <<>>
    /\ prevMarker' = marker
    /\ fileAtStart' = file
    /\ last' = "marker"
    /\ UNCHANGED <<file, cap>>
    /\ UNCHANGED regVars
    /\ UNCHANGED detVars

\* run(): open the video and read the first frame
MarkerRun ==
    /\ marker.phase = "made"
    /\ \E video \in Videos :
          /\ cap' = video
          /\ marker' = run_start(marker, video)
    /\ prevMarker' = marker
    /\ err' = "none"
    /\ last' = "run"
    /\ UNCHANGED <<file, fileAtStart, startZones>>
    /\ UNCHANGED regVars
    /\ UNCHANGED detVars

\* a left click while the window is shown; clicks stop once the session has
\* taken MaxCommits polygons
LButtonDown ==
    /\ marker.phase = "running"
    /\ Len(marker.current_points) < MaxPoints
    /\ Len(marker.zones) - Len(startZones) < MaxCommits
    /\ \E p \in Clicks(Len(marker.current_points)) :
          marker' = mouse_callback(marker, "LBUTTONDOWN", p[1], p[2])
    /\ prevMarker' = marker
    /\ err' = "none"
    /\ last' = "down"
    /\ UNCHANGED <<file, cap, fileAtStart, startZones>>
    /\ UNCHANGED regVars
    /\ UNCHANGED detVars

\* the pointer moves with the button held: the preview is redrawn
MouseMove ==
    /\ marker.phase = "running"
    /\ marker.drawing
    /\ \E p \in Clicks(Len(marker.current_points)) :
          marker' = mouse_callback(marker, "MOUSEMOVE", p[1], p[2])
    /\ prevMarker' = marker
    /\ err' = "none"
    /\ last' = "move"
    /\ UNCHANGED <<file, cap, fileAtStart, startZones>>
    /\ UNCHANGED regVars
    /\ UNCHANGED detVars

LButtonUp ==
    /\ marker.phase = "running"
    /\ \E p \in Clicks(Len(marker.current_points)) :
          marker' = mouse_callback(marker, "LBUTTONUP", p[1], p[2])
    /\ prevMarker' = marker
    /\ err' = "none"
    /\ last' = "up"
    /\ UNCHANGED <<file, cap, fileAtStart, startZones>>
    /\ UNCHANGED regVars
    /\ UNCHANGED detVars

\* q or ESC
KeyQuit ==
    /\ marker.phase = "running"
    /\ \E key \in {"q", "ESC"} :
          \E r \in {exit_key(key, marker, file, TRUE)} :
             /\ marker' = r.marker
             /\ file' = r.file
             /\ io' = r.io
             /\ ret' = IF r.ret.some THEN r.ret.v ELSE ret
             /\ last' = key
    /\ prevMarker' = marker
    /\ err' = "none"
    /\ UNCHANGED <<cap, fileAtStart, startZones>>
    /\ UNCHANGED <<zones, reg, arg, prevZones, saved>>
    /\ UNCHANGED detVars

\* s
KeyS ==
    /\ marker.phase = "running"
    /\ \E disk_ok \in BOOLEAN :
          \E r \in {exit_key("s", marker, file, disk_ok)} :
             /\ marker' = r.marker
             /\ file' = r.file
             /\ io' = r.io
             /\ ret' = IF r.ret.some THEN r.ret.v ELSE ret
    /\ prevMarker' = marker
    /\ err' = "none"
    /\ last' = "s"
    /\ UNCHANGED <<cap, fileAtStart, startZones>>
    /\ UNCHANGED <<zones, reg, arg, prevZones, saved>>
    /\ UNCHANGED detVars

KeySpace ==
    /\ marker.phase = "running"
    /\ marker' = key_space(marker, cap)
    /\ prevMarker' = marker
    /\ err' = "none"
    /\ last' = "SPACE"
    /\ UNCHANGED <<file, cap, fileAtStart, startZones>>
    /\ UNCHANGED regVars
    /\ UNCHANGED detVars

KeyB ==
    /\ marker.phase = "running"
    /\ marker' = key_b(marker)
    /\ prevMarker' = marker
    /\ err' = "none"
    /\ last' = "b"
    /\ UNCHANGED <<file, cap, fileAtStart, startZones>>
    /\ UNCHANGED regVars
    /\ UNCHANGED detVars

KeyC ==
    /\ marker.phase = "running"
    /\ marker' = key_c(marker)
    /\ prevMarker' = marker
    /\ err' = "none"
    /\ last' = "c"
    /\ UNCHANGED <<file, cap, fileAtStart, startZones>>
    /\ UNCHANGED regVars
    /\ UNCHANGED detVars

KeyEnter ==
    /\ marker.phase = "running"
    /\ marker' = key_enter(marker)
    /\ prevMarker' = marker
    /\ err' = "none"
    /\ last' = "ENTER"
    /\ UNCHANGED <<file, cap, fileAtStart, startZones>>
    /\ UNCHANGED regVars
    /\ UNCHANGED detVars

\* a zone capture session
NextMarker ==
    \/ MarkerInit \/ MarkerRun
    \/ LButtonDown \/ MouseMove \/ LButtonUp
    \/ KeyQuit \/ KeyS \/ KeySpace \/ KeyB \/ KeyC \/ KeyEnter

SpecMarker == Init /\ [][NextMarker]_vars

----------------------------------------------------------------------------
(* Properties *)

QuietFrame == last = "frame" /\ ~frame.has_intrusion

\* C1: after every frame processed with has_intrusion = true, whatever the
\* alarm state before it and whatever the time, the alarm is ACTIVE with no
\* pending deactivation timestamp; no such frame turns an ACTIVE alarm off.
C1_ActivationImmediate ==
    (last = "frame" /\ frame.has_intrusion)
        => /\ alarm_state.active
           /\ alarm_state.deactivate_time = None

\* an intrusion frame arrived while a deactivation was pending, and cleared it
C1_Witness ==
    /\ last = "frame"
    /\ frame.has_intrusion
    /\ prevAlarm.active
    /\ prevAlarm.deactivate_time.some
    /\ alarm_state = [active |-> TRUE, deactivate_time |-> None]

\* C2: with non-decreasing frame times, a frame turns the alarm from ACTIVE
\* to INACTIVE only if it is a no-intrusion frame whose time is at least 3
\* units after the first no-intrusion frame that followed the most recent
\* intrusion frame.
C2_NoSpuriousDeactivation ==
    (last = "frame" /\ prevAlarm.active /\ ~alarm_state.active)
        => /\ ~frame.has_intrusion
           /\ quietStart.some
           /\ frame.now >= quietStart.v + 3

\* a deactivation after an intrusion frame had cancelled an earlier countdown
C2_Witness ==
    /\ last = "frame"
    /\ prevAlarm.active
    /\ ~alarm_state.active
    /\ cancelled
    /\ quietStart.some
    /\ frame.now >= quietStart.v + 3

\* C3: a no-intrusion frame processed while the alarm is ACTIVE with a
\* timestamp scheduled and now >= timestamp (equality included) leaves the
\* alarm INACTIVE with no pending timestamp.
C3_DueDeactivation ==
    (/\ QuietFrame
     /\ prevAlarm.active
     /\ prevAlarm.deactivate_time.some
     /\ frame.now >= prevAlarm.deactivate_time.v)
        => /\ ~alarm_state.active
           /\ alarm_state.deactivate_time = None

\* C4: a no-intrusion frame at time now processed while the alarm is ACTIVE
\* with no timestamp scheduled leaves the alarm ACTIVE with the timestamp
\* now + 3.
C4_ScheduleOnFirstQuietFrame ==
    (QuietFrame /\ prevAlarm.active /\ ~prevAlarm.deactivate_time.some)
        => alarm_state = [active |-> TRUE,
                          deactivate_time |-> Some(frame.now + 3)]

C4_Witness ==
    /\ QuietFrame
    /\ prevAlarm = [active |-> TRUE, deactivate_time |-> None]
    /\ alarm_state.active
    /\ alarm_state.deactivate_time = Some(frame.now + 3)

\* a source that is missing, unreadable or holds a malformed document
BadSource(f) ==
    \/ ~f.exists
    \/ ~f.readable
    \/ f.doc.k # "object"
    \/ "zones" \notin DOMAIN f.doc.fields

\* C5: building the registry from a missing, unreadable or malformed source
\* yields an empty registry and raises nothing.
C5_SilentDegradeLoad ==
    (last = "construct" /\ BadSource(file))
        => /\ err = "none"
           /\ reg = "ready"
           /\ zones = <<>>

\* C6: the frame's has_intrusion is true exactly when some detection of that
\* frame has its representative point inside some zone of the registry, and
\* the frame applies one alarm transition: activate when has_intrusion,
\* otherwise check_deactivate with the frame's time.
C6_FrameSignalExact ==
    last = "frame"
        => /\ frame.has_intrusion
                = (\E i \in DOMAIN frame.dets : \E j \in DOMAIN det_zones :
                      point_in_polygon(bbox_center(frame.dets[i]),
                                       det_zones[j].points))
           /\ alarm_state = IF frame.has_intrusion
                            THEN activate(prevAlarm)
                            ELSE check_deactivate(prevAlarm, frame.now)

\* two detections of which only the first lies in a zone
C6_Witness ==
    /\ last = "frame"
    /\ Len(frame.dets) = 2
    /\ frame.hits[1] # <<>>
    /\ frame.hits[2] = <<>>
    /\ frame.has_intrusion
    /\ alarm_state.active

\* C7 as stated: a fresh registry loaded after a successful save of a
\* non-empty registry holds the same zones in the same order.
C7_RoundTrip ==
    (last = "construct" /\ saved.some /\ Len(saved.v) > 0)
        => /\ err = "none"
           /\ zones = saved.v

\* C7 amended: the same, for a file that can be read back.
C7_RoundTripReadable ==
    (last = "construct" /\ saved.some /\ Len(saved.v) > 0 /\ file.readable)
        => /\ err = "none"
           /\ zones = saved.v

C7_Witness ==
    /\ last = "construct"
    /\ saved.some
    /\ Len(saved.v) = 2
    /\ file.readable
    /\ zones = saved.v
    /\ zones[1].points # zones[2].points

\* C8: a no-intrusion frame processed while the alarm is ACTIVE with a
\* timestamp scheduled and now < timestamp leaves the alarm ACTIVE and the
\* timestamp unchanged.
C8_PendingLeftAlone ==
    (/\ QuietFrame
     /\ prevAlarm.active
     /\ prevAlarm.deactivate_time.some
     /\ frame.now < prevAlarm.deactivate_time.v)
        => alarm_state = prevAlarm

\* C9: when a frame's representative point is looked up, the containment
\* test is not invoked on a zone with fewer than 3 points, and such a zone
\* contributes no zone id.
C9_DegenerateExcluded ==
    last = "frame"
        => \A j \in DOMAIN det_zones :
              Len(det_zones[j].points) < 3
                  => /\ j \notin frame.tested
                     /\ \A i \in DOMAIN frame.hits :
                           \A k \in DOMAIN frame.hits[i] :
                              frame.hits[i][k] # det_zones[j].id

\* C10: add without an id appends one zone whose id is the number of zones
\* before the call plus 1, and leaves the zones already there as they were.
C10_SequentialId ==
    (last = "add" /\ ~arg.zone_id.some)
        => /\ Len(zones) = Len(prevZones) + 1
           /\ zones[Len(zones)].id = Len(prevZones) + 1
           /\ SubSeq(zones, 1, Len(prevZones)) = prevZones

\* a registry holding 2 zones assigns id 3
C10_Witness ==
    /\ last = "add"
    /\ ~arg.zone_id.some
    /\ Len(prevZones) = 2
    /\ Len(zones) = 3
    /\ zones[3].id = 3

\* the positions, in registry order, of the zones whose polygon contains c
Matching(c, zs) == {j \in DOMAIN zs : point_in_polygon(c, zs[j].points)}

\* the k-th smallest element of a set of positions
Nth(S, k) == CHOOSE j \in S : Cardinality({m \in S : m < j}) = k - 1

\* C11: for each detection, the zone ids returned for its representative
\* point are exactly the ids of the zones that contain the point, all of
\* them, in the order the zones have in the registry.
C11_AllMatchesInOrder ==
    last = "frame"
        => \A i \in DOMAIN frame.dets :
              LET c == bbox_center(frame.dets[i])
                  M == Matching(c, det_zones)
              IN  /\ Len(frame.hits[i]) = Cardinality(M)
                  /\ \A k \in 1 .. Cardinality(M) :
                        frame.hits[i][k] = det_zones[Nth(M, k)].id

\* a point in two overlapping zones, reported as <<3, 1>>: registry order,
\* not id order
C11_Witness ==
    /\ last = "frame"
    /\ \E i \in DOMAIN frame.hits : frame.hits[i] = <<3, 1>>

\* C12: a no-intrusion frame processed while the alarm is INACTIVE leaves
\* it INACTIVE and schedules no deactivation timestamp, at any time value.
C12_QuietInactiveNoOp ==
    (QuietFrame /\ ~prevAlarm.active)
        => /\ ~alarm_state.active
           /\ alarm_state.deactivate_time = None
           /\ alarm_state = prevAlarm

\* a quiet frame at a negative time on an INACTIVE alarm of a run in which
\* the alarm had been ACTIVE before
C12_Witness ==
    /\ QuietFrame
    /\ ~prevAlarm.active
    /\ ~alarm_state.active
    /\ cancelled
    /\ frame.now = 0 - 3

\* C13: a deactivation timestamp is present only while the alarm is ACTIVE,
\* and the alarm starts INACTIVE with no timestamp.
C13_TimestampOnlyWhileActive ==
    /\ alarm_state.deactivate_time.some => alarm_state.active
    /\ last \in {"init", "detector"} => alarm_state = AlarmInit

\* a reset that found a pending timestamp
C13_Witness ==
    /\ last = "reset"
    /\ prevAlarm.deactivate_time.some
    /\ ~alarm_state.active
    /\ ~alarm_state.deactivate_time.some

\* C14: reset leaves the alarm INACTIVE with no pending timestamp, from any
\* alarm state and whatever the time.
C14_ResetForcesInactive ==
    last = "reset"
        => alarm_state = [active |-> FALSE, deactivate_time |-> None]

\* reset of an ACTIVE alarm whose pending timestamp lies after the last
\* frame's time
C14_Witness ==
    /\ last = "reset"
    /\ prevAlarm.active
    /\ prevAlarm.deactivate_time.some
    /\ prevAlarm.deactivate_time.v > frame.now
    /\ alarm_state = [active |-> FALSE, deactivate_time |-> None]

\* C15: save_zones raises nothing and leaves the registry as it was; it
\* returns false when the destination could not be written (permissions,
\* device) and true when the write went through.
C15_SaveFailureIsAValue ==
    last = "save"
        => /\ err = "none"
           /\ zones = prevZones
           /\ ret = (io = "ok")
           /\ ret => (file.exists /\ file.doc = json_dump(zones))

\* a failed save of a non-empty registry, by permissions or by the device
C15_Witness ==
    /\ last = "save"
    /\ io = "denied"
    /\ ~ret
    /\ Len(zones) > 0
    /\ zones = prevZones

\* the other failure: the device fails after the file was opened
C15_WitnessDisk ==
    /\ last = "save"
    /\ io = "diskfull"
    /\ ~ret
    /\ Len(zones) > 0

\* the ids of a zone list are pairwise distinct
DistinctIds(zs) ==
    \A i, j \in DOMAIN zs : i # j => zs[i].id # zs[j].id

\* C16: in a registry whose zone ids are pairwise distinct, an add that
\* omits the id assigns an id no zone of the registry has, so the ids stay
\* pairwise distinct.
C16_AutoIdsUnique ==
    (last = "add" /\ ~arg.zone_id.some /\ DistinctIds(prevZones))
        => DistinctIds(zones)

\* C17: once the frames are quiet, the frame whose time is at least 3 units
\* after the first of the quiet frames finds or leaves the alarm INACTIVE
\* with no pending timestamp.
C17_QuietPeriodTurnsOff ==
    (QuietFrame /\ quietStart.some /\ frame.now >= quietStart.v + 3)
        => alarm_state = [active |-> FALSE, deactivate_time |-> None]

\* the keys that finish a polygon
FinishKeys == {"ENTER", "SPACE", "s"}

\* the zone a finishing key takes from the marker m
Committed(m) ==
    [id |-> Len(m.zones) + 1, points |-> m.current_points]

\* C18: in a zone capture session every zone added after the ones loaded
\* has at least 3 points and the id "zones in the registry before it + 1";
\* ENTER, SPACE or S on a polygon of fewer than 3 points adds no zone, and
\* on a polygon of at least 3 points adds exactly that polygon.
C18_OnlyValidPolygons ==
    marker.phase # "none" =>
        /\ Len(marker.zones) >= Len(startZones)
        /\ SubSeq(marker.zones, 1, Len(startZones)) = startZones
        /\ \A j \in (Len(startZones) + 1) .. Len(marker.zones) :
              /\ Len(marker.zones[j].points) >= 3
              /\ marker.zones[j].id = j
        /\ (last \in FinishKeys /\ Len(prevMarker.current_points) < 3)
              => marker.zones = prevMarker.zones
        /\ (last \in FinishKeys /\ Len(prevMarker.current_points) >= 3)
              => marker.zones = Append(prevMarker.zones, Committed(prevMarker))
        /\ (last \notin FinishKeys /\ last # "marker")
              => marker.zones = prevMarker.zones

\* a second polygon of the session has just been finished with ENTER
C18_Witness ==
    /\ last = "ENTER"
    /\ Len(prevMarker.current_points) >= 3
    /\ Len(marker.zones) = Len(startZones) + 2

\* ENTER on two points after one polygon was taken
C18_WitnessShort ==
    /\ last = "ENTER"
    /\ Len(prevMarker.current_points) = 2
    /\ Len(marker.zones) = Len(startZones) + 1

\* C19: a zone capture session writes the zone file only on S: before S,
\* and after Q or ESC, the file is as it was when the session started; S
\* finishes a polygon of at least 3 points and then writes all zones.
C19_PersistOnlyOnS ==
    marker.phase # "none" =>
        /\ last # "s" => file = fileAtStart
        /\ last \in {"q", "ESC"} => (marker.phase = "done" /\ file = fileAtStart)
        /\ last = "s" =>
              /\ marker.phase = "done"
              /\ marker.zones =
                    IF Len(prevMarker.current_points) >= 3
                    THEN Append(prevMarker.zones, Committed(prevMarker))
                    ELSE prevMarker.zones
              /\ ret = (io = "ok")
              /\ io = "ok" => (file.exists /\ file.doc = json_dump(marker.zones))
              /\ io = "denied" => file = fileAtStart

\* S pressed on a finished-size polygon, written to the file
C19_Witness ==
    /\ last = "s"
    /\ io = "ok"
    /\ Len(prevMarker.current_points) >= 3
    /\ file.doc = json_dump(marker.zones)
    /\ file # fileAtStart

\* Q or ESC after the session took a polygon and has another in progress
C19_WitnessQuit ==
    /\ last \in {"q", "ESC"}
    /\ Len(marker.zones) > Len(startZones)
    /\ marker.current_points # <<>>

====
